---- MODULE Spec2Model ----
(***************************************************************************)
(* A model of polar.py: the SocialWorld engine (constructor, step, run),   *)
(* the CitizenAgent interaction rule, the random-activation scheduler and  *)
(* the data collector.                                                     *)
(*                                                                         *)
(* Opinions are reals in [0,1]; the model keeps them as numerators over    *)
(* Scale.  The initial draws are multiples of Unit, a power of two with    *)
(* one binary digit for every activation an engine of the model can make   *)
(* (MaxN agents in each of at most MaxT + 1 scheduler steps), so every     *)
(* average the model computes is exact, as it is in reals; the rounding of *)
(* floating point is not modelled.                                         *)
(***************************************************************************)
EXTENDS Integers, Sequences, FiniteSets, TLC

\* ---------------------------------------------------------------- bounds
MaxN == 4
MaxI == 3
MaxT == 1
MaxDraws == 2

\* ------------------------------------------------------ program constants
\* DataCollector model_reporters: for a in range(4) for i in range(3)
ReportedAgents == 4
ReportedIssues == 3

\* the initial opinions lie on a grid of Grid points of [0,1), Unit apart
Grid == 2 * MaxN
Unit == 2 ^ (MaxN * (MaxT + 1))
Scale == Grid * Unit

\* the values of Cthresh the model constructs engines with
CthreshValues == {0, Unit}

\* the values of ER_p (in percent) the model constructs engines with
EdgeProbs == {0, 50}

VARIABLES
    max_steps,      \* self.max_steps (T)
    num_agents,     \* self.num_agents (N)
    num_issues,     \* self.num_issues (I)
    Cthresh,        \* self.Cthresh, numerator over Scale
    p,              \* self.p (ER_p), in percent
    G,              \* self.G: the set of undirected edges {a, b}
    redraws,        \* history: how often line 92 has run in the constructor in
                    \* progress, counted up to MaxDraws; 0 once it has returned
    opinions,       \* schedule.agents[a].opinions[i], numerators over Scale
    num_steps,      \* self.num_steps
    running,        \* self.running
    model_vars,     \* datacollector.model_vars: column name -> list of values
    sched_steps,    \* schedule.steps
    pending,        \* the agents of the shuffled buffer schedule.step() has
                    \* still to activate
    pc,             \* "init" | "idle" | "sched" | "raised"
    call,           \* the external call in progress: "none" | "step" | "run"
    run_left,       \* iterations run() has still to make
    run_fresh,      \* run() was entered on an engine as constructed
    activations,    \* history: how often each agent's step() has been invoked
    history,        \* history: the opinions at construction and after each
                    \* completed schedule.step()
    worlds,         \* SpecTwin: two engines built with the same parameters and
                    \* seed; of each its G, opinions, num_steps, running,
                    \* model_vars and pending
    rng_sync,       \* SpecTwin: the two engines' self.random are in the same state
    same_order      \* SpecTwin: the shuffle of the step in progress gave the two
                    \* schedulers the same order

vars == <<max_steps, num_agents, num_issues, Cthresh, p, G, redraws, opinions,
          num_steps, running, model_vars, sched_steps, pending, pc, call,
          run_left, run_fresh, activations, history, worlds, rng_sync, same_order>>

twins == <<worlds, rng_sync, same_order>>

config == <<max_steps, num_agents, num_issues, Cthresh, p>>

\* ---------------------------------------------------------------- helpers
Agents(N) == 0 .. (N - 1)
Issues(I) == 0 .. (I - 1)
Min(x, y) == IF x <= y THEN x ELSE y

\* ------------------------------------------------------------ SocialGraph
CompleteGraph(N) == {{a, b} : a \in Agents(N), b \in Agents(N)} \ {{a} : a \in Agents(N)}
PathGraph(N) == {{a, a + 1} : a \in 0 .. (N - 2)}
StarGraph(N) == {{a, N - 1} : a \in 0 .. (N - 2)}
SplitGraph(N) == {{a, a + 1} : a \in 1 .. (N - 2)}

\* nx.erdos_renyi_graph(N, ER_p): p <= 0 gives the edgeless graph, p >= 1 the
\* complete graph, anything between any graph (the model draws from a family).
ErdosRenyiDraws(N, prob) ==
    IF prob <= 0 THEN {{}}
    ELSE IF prob >= 100 THEN {CompleteGraph(N)}
    ELSE {{}, SplitGraph(N), PathGraph(N), StarGraph(N)}

\* G.adj[a]
Adj(g, a) == {b \in UNION g : {a, b} \in g /\ b # a}

RECURSIVE Reach(_, _)
Reach(g, seen) ==
    LET more == seen \cup UNION {Adj(g, a) : a \in seen}
    IN IF more = seen THEN seen ELSE Reach(g, more)

IsConnectedAlways(g, N) == TRUE

IsConnectedAmongEdges(g, N) == UNION g \subseteq Reach(g, {0} \cup UNION g)

\* nx.is_connected(G) on nodes 0..N-1
IsConnected(g, N) == Reach(g, {0}) = Agents(N)

\* ------------------------------------------------------------- CitizenAgent
\* model.random.uniform(0,1,size=I) for each of the N agents. Two samples:
\* in "apart" any two agents are at least two grid points apart on every
\* issue; "agree" is the same, but agents 0 and 1 agree on issue 0.
UniformDraw(d, N, I) ==
    [a \in Agents(N) |-> [i \in Issues(I) |->
        IF d = "agree" /\ i = 0 /\ a = 0 THEN 2 * Unit
        ELSE Unit * ((2 * (a + i)) % Grid)]]

UniformDraws == {"apart", "agree"}

Abs(x) == IF x < 0 THEN -x ELSE x

AvgNotHalved(x, y) == x + y

AvgOvershoots(x, y) == 2 * y - x

\* (x + y) / 2
Avg(x, y) == (x + y) \div 2

TooFarNoAbs(ops, a, nei, compare, thresh) ==
    ops[a][compare] - ops[nei][compare] > thresh

\* the gate of CitizenAgent.step: TRUE when the neighbour is "a kook"
TooFar(ops, a, nei, compare, thresh) ==
    Abs(ops[a][compare] - ops[nei][compare]) > thresh

CitizenStepMovesNeighbour(ops, a, nei, compare, persuade, thresh) ==
    IF Abs(ops[a][compare] - ops[nei][compare]) > thresh
    THEN ops
    ELSE [ops EXCEPT ![nei][persuade] = (ops[a][persuade] + ops[nei][persuade]) \div 2]

CitizenStepFromSnapshot(ops, a, nei, compare, persuade, thresh) ==
    LET before == history[Len(history)]
    IN IF Abs(ops[a][compare] - before[nei][compare]) > thresh
       THEN ops
       ELSE [ops EXCEPT ![a][persuade] = (ops[a][persuade] + before[nei][persuade]) \div 2]

\* CitizenAgent.step of agent a, having drawn nei, compare and persuade
CitizenStep(ops, a, nei, compare, persuade, thresh) ==
    IF TooFar(ops, a, nei, compare, thresh)
    THEN ops
    ELSE [ops EXCEPT ![a][persuade] = Avg(ops[a][persuade], ops[nei][persuade])]

\* ------------------------------------------------------------ DataCollector
ReporterName(a, i) == "agent" \o ToString(a) \o "_iss" \o ToString(i)

\* the model_reporters dict, in insertion order
ModelReporters ==
    [k \in 1 .. (ReportedAgents * ReportedIssues) |->
        [agent |-> (k - 1) \div ReportedIssues, issue |-> (k - 1) % ReportedIssues]]

ReporterNames == {ReporterName(ModelReporters[k].agent, ModelReporters[k].issue) :
                    k \in DOMAIN ModelReporters}

get_opinion_first_issue(ops, agent_num, issue_num) == ops[agent_num][0]

get_opinion(ops, agent_num, issue_num) == ops[agent_num][issue_num]

\* the pooled variance of all opinions, as a numerator over (count * Scale)^2
mean_opinion_var(ops) ==
    LET cells == {<<a, i>> : a \in DOMAIN ops, i \in DOMAIN ops[0]}
        RECURSIVE Sum(_, _)
        Sum(S, sq) == IF S = {} THEN 0
                      ELSE LET c == CHOOSE c \in S : TRUE
                               v == ops[c[1]][c[2]]
                           IN (IF sq THEN v * v ELSE v) + Sum(S \ {c}, sq)
    IN Cardinality(cells) * Sum(cells, TRUE) - Sum(cells, FALSE) * Sum(cells, FALSE)

\* datacollector.collect(model) from the k-th reporter on: each reporter's value
\* is appended to its column; an index past the agents or the issues raises.
RECURSIVE Collect(_, _, _)
Collect(mv, ops, k) ==
    IF k > Len(ModelReporters) THEN [vars |-> mv, ok |-> TRUE]
    ELSE LET a == ModelReporters[k].agent
             i == ModelReporters[k].issue
         IN IF a \notin DOMAIN ops \/ i \notin DOMAIN ops[a]
            THEN [vars |-> mv, ok |-> FALSE]
            ELSE Collect([mv EXCEPT ![ReporterName(a, i)] =
                              Append(@, get_opinion(ops, a, i))], ops, k + 1)

\* ---------------------------------------------------------------- Scheduler
AgentBufferSkipsFirst(N) == Agents(N) \ {0}

\* schedule.agent_buffer(shuffled=True): every agent added to the scheduler
AgentBuffer(N) == Agents(N)

\* ------------------------------------------------------------- SocialWorld
\* SocialWorld(T, N, I, Cthresh, ER_p): the parameters, lines 83-87
Params ==
    /\ max_steps \in 1 .. MaxT
    /\ num_agents \in 1 .. MaxN
    /\ num_issues \in 2 .. MaxI
    /\ Cthresh \in CthreshValues
    /\ p \in EdgeProbs

Init ==
    /\ Params
    /\ G \in ErdosRenyiDraws(num_agents, p)
    /\ redraws = 0
    /\ opinions = <<>>
    /\ num_steps = 0
    /\ running = FALSE
    /\ model_vars = <<>>
    /\ sched_steps = 0
    /\ pending = {}
    /\ pc = "init"
    /\ call = "none"
    /\ run_left = 0
    /\ run_fresh = FALSE
    /\ activations = <<>>
    /\ history = <<>>
    /\ worlds = <<>>
    /\ rng_sync = TRUE
    /\ same_order = TRUE

\* __init__, lines 91-92: the graph is drawn again while it is not connected
RedrawGraph ==
    /\ pc = "init"
    /\ ~IsConnected(G, num_agents)
    /\ G' \in ErdosRenyiDraws(num_agents, p)
    /\ redraws' = Min(redraws + 1, MaxDraws)
    /\ UNCHANGED <<config, twins, opinions, num_steps, running, model_vars, sched_steps,
                   pending, pc, call, run_left, run_fresh, activations, history>>

\* __init__, lines 98-110: agents, scheduler, running flag, data collector
FinishInit ==
    /\ pc = "init"
    /\ IsConnected(G, num_agents)
    /\ \E d \in UniformDraws :
         /\ opinions' = UniformDraw(d, num_agents, num_issues)
         /\ history' = <<UniformDraw(d, num_agents, num_issues)>>
    /\ running' = TRUE
    /\ model_vars' = [n \in ReporterNames |-> <<>>]
    /\ activations' = [a \in Agents(num_agents) |-> 0]
    /\ redraws' = 0
    /\ pc' = "idle"
    /\ UNCHANGED <<config, twins, G, num_steps, sched_steps, pending, call, run_left, run_fresh>>

AfterTerminalCheckCountsThisCall(steps, T, flag) == IF steps + 1 >= T THEN FALSE ELSE flag

\* the running flag after the terminal check of step()
AfterTerminalCheck(steps, T, flag) == IF steps >= T THEN FALSE ELSE flag

\* SocialWorld.step, lines 115-121: the terminal check, the step counter and
\* the collection, on an engine that is running
StepEnter(steps, T, flag, mv, ops) ==
    LET col == Collect(mv, ops, 1)
    IN [running |-> AfterTerminalCheck(steps, T, flag),
        num_steps |-> steps + 1,
        model_vars |-> col.vars,
        ok |-> col.ok]

StepBodyWithoutGuard ==
    LET r == StepEnter(num_steps, max_steps, running, model_vars, opinions)
    IN /\ running' = r.running
       /\ num_steps' = r.num_steps
       /\ model_vars' = r.model_vars
       /\ IF r.ok
          THEN /\ pending' = AgentBuffer(num_agents)
               /\ pc' = "sched"
          ELSE /\ pending' = pending
               /\ pc' = "raised"
       /\ UNCHANGED <<config, twins, G, redraws, opinions, sched_steps, activations, history>>

\* SocialWorld.step up to the shuffle of schedule.step(); the caller sets call
\* and run_left
StepBody ==
    IF ~running
    THEN UNCHANGED <<config, twins, G, redraws, opinions, num_steps, running, model_vars,
                     sched_steps, pending, pc, activations, history>>
    ELSE LET r == StepEnter(num_steps, max_steps, running, model_vars, opinions)
         IN /\ running' = r.running
            /\ num_steps' = r.num_steps
            /\ model_vars' = r.model_vars
            /\ IF r.ok
               THEN /\ pending' = AgentBuffer(num_agents)
                    /\ pc' = "sched"
               ELSE /\ pending' = pending
                    /\ pc' = "raised"
            /\ UNCHANGED <<config, twins, G, redraws, opinions, sched_steps, activations, history>>

\* an external call of step()
Step ==
    /\ pc = "idle"
    /\ call = "none"
    /\ StepBody
    /\ call' = IF pc' = "idle" THEN "none" ELSE "step"
    /\ UNCHANGED <<run_left, run_fresh>>

RunIterationsOneMore(T) == T + 1

\* run(): for _ in range(self.max_steps)
RunIterations(T) == T

\* an external call of run()
Run ==
    /\ pc = "idle"
    /\ call = "none"
    /\ call' = "run"
    /\ run_left' = RunIterations(max_steps)
    /\ run_fresh' = (num_steps = 0 /\ running)
    /\ UNCHANGED <<config, twins, G, redraws, opinions, num_steps, running, model_vars,
                   sched_steps, pending, pc, activations, history>>

\* one iteration of the loop of run()
RunIter ==
    /\ pc = "idle"
    /\ call = "run"
    /\ run_left > 0
    /\ StepBody
    /\ run_left' = run_left - 1
    /\ UNCHANGED <<call, run_fresh>>

\* run() returns
RunReturn ==
    /\ pc = "idle"
    /\ call = "run"
    /\ run_left = 0
    /\ call' = "none"
    /\ run_fresh' = FALSE
    /\ UNCHANGED <<config, twins, G, redraws, opinions, num_steps, running, model_vars,
                   sched_steps, pending, pc, run_left, activations, history>>

IssuePairsWithReplacement(I) == Issues(I) \X Issues(I)

\* random.choice(np.arange(0, I), size=2, replace=False): (compare, persuade)
IssuePairs(I) == {pair \in Issues(I) \X Issues(I) : pair[1] # pair[2]}

\* the opinions after the activation of agent a in graph g
Activated(ops, g, a, nei, compare, persuade, thresh) ==
    IF Adj(g, a) = {} THEN ops
    ELSE CitizenStep(ops, a, nei, compare, persuade, thresh)

\* every result the activation of agent a can have: one for each neighbour,
\* compare issue and persuade issue the random source may draw
Outcomes(ops, g, a, I, thresh) ==
    {Activated(ops, g, a, nei, pair[1], pair[2], thresh) :
        nei \in (IF Adj(g, a) = {} THEN {a} ELSE Adj(g, a)),
        pair \in IssuePairs(I)}

\* the agents schedule.step() has still to activate once agent a has run
AfterActivation(buffer, a) == buffer \ {a}

\* schedule.step(): the next agent of the shuffled buffer runs its step();
\* after the last one the scheduler counts the step and step() returns.
\* The buffer is a random permutation of the agents read front to back, so
\* the next agent is any agent it has not yet yielded.
Activate ==
    /\ pc = "sched"
    /\ pending # {}
    /\ \E a \in pending :
       LET rest == AfterActivation(pending, a)
       IN /\ opinions' \in Outcomes(opinions, G, a, num_issues, Cthresh)
          /\ activations' = [activations EXCEPT ![a] = @ + 1]
          /\ pending' = rest
          /\ IF rest = {}
             THEN /\ sched_steps' = sched_steps + 1
                  /\ history' = Append(history, opinions')
                  /\ pc' = "idle"
                  /\ call' = IF call = "step" THEN "none" ELSE call
             ELSE UNCHANGED <<sched_steps, history, pc, call>>
    /\ UNCHANGED <<config, twins, G, redraws, num_steps, running, model_vars, run_left, run_fresh>>

\* external code clears the running flag between calls
ClearRunning ==
    /\ pc = "idle"
    /\ call = "none"
    /\ running
    /\ running' = FALSE
    /\ UNCHANGED <<config, twins, G, redraws, opinions, num_steps, model_vars, sched_steps, pending,
                   pc, call, run_left, run_fresh, activations, history>>

Next ==
    \/ RedrawGraph
    \/ FinishInit
    \/ Step
    \/ Run
    \/ RunIter
    \/ RunReturn
    \/ Activate
    \/ ClearRunning

Spec == Init /\ [][Next]_vars

\* the draw of line 92 that gives a connected graph
RedrawConnected == RedrawGraph /\ IsConnected(G', num_agents)

\* SocialWorld(T, N, I, Cthresh, ER_p) alone: the steps of the constructor
NextInit ==
    \/ RedrawGraph
    \/ FinishInit

\* The constructor runs on: it leaves its loop when the graph is connected,
\* and of the independent draws of its loop one is connected if any can be.
SpecInit == Init /\ [][NextInit]_vars /\ WF_vars(FinishInit) /\ WF_vars(RedrawConnected)

\* ------------------------------------------------- two engines, in lockstep
\* Two SocialWorld objects are built with the same parameters; both seed
\* self.random with 123, so the two generators give the same results as long
\* as they are asked the same questions.  nx.erdos_renyi_graph is called
\* without a seed: it draws from the global generator of the random module,
\* afresh for each engine.
Twins == {1, 2}

\* the k-th neighbour of G.adj[a], a itself when a has no neighbour
Neighbour(g, a, k) ==
    IF Adj(g, a) = {} THEN a
    ELSE CHOOSE b \in Adj(g, a) : Cardinality({c \in Adj(g, a) : c < b}) = k - 1

Degree(g, a) == Cardinality(Adj(g, a))

InitTwin ==
    /\ Params
    /\ G = {}
    /\ redraws = 0
    /\ opinions = <<>>
    /\ num_steps = 0
    /\ running = FALSE
    /\ model_vars = <<>>
    /\ sched_steps = 0
    /\ pending = {}
    /\ pc = "init"
    /\ call = "none"
    /\ run_left = 0
    /\ run_fresh = FALSE
    /\ activations = <<>>
    /\ history = <<>>
    /\ worlds \in [Twins -> {[G |-> g, opinions |-> <<>>, num_steps |-> 0,
                              running |-> FALSE, model_vars |-> <<>>, pending |-> {}] :
                                g \in ErdosRenyiDraws(num_agents, p)}]
    /\ rng_sync = TRUE
    /\ same_order = TRUE

main == <<G, redraws, opinions, num_steps, running, model_vars, sched_steps, pending,
          call, run_left, run_fresh, activations, history>>

\* __init__, lines 91-92, in one of the two engines
TwinRedrawGraph ==
    /\ pc = "init"
    /\ \E w \in Twins :
          /\ ~IsConnected(worlds[w].G, num_agents)
          /\ \E g \in ErdosRenyiDraws(num_agents, p) :
                worlds' = [worlds EXCEPT ![w].G = g]
    /\ UNCHANGED <<config, main, pc, rng_sync, same_order>>

\* __init__, lines 98-110, in both engines: the two generators are in their
\* initial state and give the same opinions
TwinFinishInit ==
    /\ pc = "init"
    /\ \A w \in Twins : IsConnected(worlds[w].G, num_agents)
    /\ \E d \in UniformDraws :
          worlds' = [w \in Twins |->
                        [worlds[w] EXCEPT !.opinions = UniformDraw(d, num_agents, num_issues),
                                          !.running = TRUE,
                                          !.model_vars = [n \in ReporterNames |-> <<>>]]]
    /\ pc' = "idle"
    /\ UNCHANGED <<config, main, rng_sync, same_order>>

\* step() is called on both engines; the shuffle asks both generators the
\* same question
TwinStep ==
    /\ pc = "idle"
    /\ LET r(w) == StepEnter(worlds[w].num_steps, max_steps, worlds[w].running,
                             worlds[w].model_vars, worlds[w].opinions)
       IN /\ worlds' = [w \in Twins |->
                          IF ~worlds[w].running THEN worlds[w]
                          ELSE [worlds[w] EXCEPT !.running = r(w).running,
                                                 !.num_steps = r(w).num_steps,
                                                 !.model_vars = r(w).model_vars,
                                                 !.pending = IF r(w).ok
                                                             THEN AgentBuffer(num_agents)
                                                             ELSE {}]]
          /\ pc' = IF \A w \in Twins : ~worlds[w].running THEN "idle"
                   ELSE IF \A w \in Twins : r(w).ok THEN "sched"
                   ELSE "raised"
    /\ same_order' = rng_sync
    /\ UNCHANGED <<config, main, rng_sync>>

\* both schedulers activate their next agent.  The agent is the same when the
\* shuffles agreed; the neighbour index and the issue pair are the same when
\* the generators are in the same state and are asked to choose among equally
\* many neighbours.
TwinActivate ==
    /\ pc = "sched"
    /\ \E a1 \in worlds[1].pending : \E a2 \in worlds[2].pending :
       LET agent == <<a1, a2>>
           asked_same == rng_sync /\ Degree(worlds[1].G, a1) = Degree(worlds[2].G, a2)
           Draws(w) ==
               [nei : 1 .. (IF Degree(worlds[w].G, agent[w]) = 0 THEN 1
                            ELSE Degree(worlds[w].G, agent[w])),
                pair : IssuePairs(num_issues)]
           After(w, d) ==
               [worlds[w] EXCEPT
                   !.opinions = Activated(worlds[w].opinions, worlds[w].G, agent[w],
                                          Neighbour(worlds[w].G, agent[w], d.nei),
                                          d.pair[1], d.pair[2], Cthresh),
                   !.pending = AfterActivation(worlds[w].pending, agent[w])]
       IN /\ same_order => a1 = a2
          /\ worlds' \in
                IF asked_same
                THEN {<<After(1, d), After(2, d)>> : d \in Draws(1)}
                ELSE {<<After(1, d1), After(2, d2)>> : d1 \in Draws(1), d2 \in Draws(2)}
          /\ rng_sync' = asked_same
          /\ pc' = IF AfterActivation(worlds[1].pending, a1) = {} THEN "idle" ELSE "sched"
    /\ UNCHANGED <<config, main, same_order>>

NextTwin ==
    \/ TwinRedrawGraph
    \/ TwinFinishInit
    \/ TwinStep
    \/ TwinActivate

SpecTwin == InitTwin /\ [][NextTwin]_vars

\* ================================================================ claims

\* a call of step(), external or from the loop of run()
StepCall == Step \/ RunIter

\* one activation: some agent's step() has been invoked
Activation == pc = "sched" /\ activations' # activations

\* the opinions at the end of the last completed schedule.step()
Settled == history[Len(history)]

\* C1 (as claimed): a step() call made while running is true and num_steps >=
\* max_steps sets running to false and returns without doing any work: the
\* step counter is not incremented, no record is appended, no agent is
\* activated.
C1_TerminalStepDoesNoWork ==
    [][(StepCall /\ running /\ num_steps >= max_steps) =>
          /\ running' = FALSE
          /\ num_steps' = num_steps
          /\ model_vars' = model_vars
          /\ opinions' = opinions
          /\ pc' = "idle"]_vars

\* the component (x, i) of opinion matrix r is the one it has in ops
SameCell(r, ops, x, i) == r[x][i] = ops[x][i]

\* what C2 says of the activation of a that draws b and (compare, persuade)
\* and turns the opinions ops into r
GatedMean(ops, r, a, b, compare, persuade, thresh) ==
    IF Abs(ops[a][compare] - ops[b][compare]) > thresh
    THEN r = ops
    ELSE /\ 2 * r[a][persuade] = ops[a][persuade] + ops[b][persuade]
         /\ \A x \in DOMAIN ops : \A i \in DOMAIN ops[x] :
               (x # a \/ i # persuade) => SameCell(r, ops, x, i)

\* C2: for every activation of an agent a and every neighbour b and pair of
\* distinct issues (compare, persuade) it can draw: if a and b differ by more
\* than Cthresh on compare no opinion changes, otherwise a's persuade opinion
\* becomes the mean of a's and b's persuade opinions before the activation
\* and nothing else changes; and every activation that happens is of that
\* form for the agent activated and some draw.
C2_GatingCorrectness ==
    /\ [](pc = "sched" =>
            \A a \in pending : \A b \in Adj(G, a) : \A pair \in IssuePairs(num_issues) :
                GatedMean(opinions,
                          CitizenStep(opinions, a, b, pair[1], pair[2], Cthresh),
                          a, b, pair[1], pair[2], Cthresh))
    /\ [][Activation =>
            \E a \in pending :
                /\ activations'[a] = activations[a] + 1
                /\ IF Adj(G, a) = {}
                   THEN opinions' = opinions
                   ELSE \E b \in Adj(G, a) : \E pair \in IssuePairs(num_issues) :
                           GatedMean(opinions, opinions', a, b, pair[1], pair[2], Cthresh)]_vars

\* C2 witness: in the current step an activated agent has moved an opinion
C2_Witness ==
    /\ pc = "sched"
    /\ \E a \in Agents(num_agents) \ pending : opinions[a] # Settled[a]
    /\ \E a \in pending : \E b \in Adj(G, a) :
          Abs(opinions[a][0] - opinions[b][0]) > Cthresh

\* C3: every schedule.step() activates each of the N agents exactly once: an
\* agent has been activated once per completed schedule.step(), and once more
\* exactly when the step in progress has already yielded it.
C3_EachAgentOncePerStep ==
    pc # "init" =>
        /\ pending \subseteq Agents(num_agents)
        /\ pc # "sched" => pending = {}
        /\ \A a \in Agents(num_agents) :
              activations[a] =
                 sched_steps + (IF pc = "sched" /\ a \notin pending THEN 1 ELSE 0)

\* C3 witness: a schedule.step() over four agents has completed
C3_Witness ==
    pc = "idle" /\ sched_steps >= 1 /\ num_agents >= ReportedAgents

\* C4 (as claimed): two engines built with the same parameters and the same
\* seed and stepped in lockstep have the same graph, the same opinions and the
\* same time series
C4_TwinsIdentical ==
    pc # "init" =>
        /\ worlds[1].G = worlds[2].G
        /\ worlds[1].opinions = worlds[2].opinions
        /\ worlds[1].model_vars = worlds[2].model_vars

\* s is an initial segment of t
IsPrefix(s, t) == Len(s) <= Len(t) /\ \A k \in 1 .. Len(s) : s[k] = t[k]

\* C5 (as claimed): after any sequence of step() and run() calls every column
\* of the time series has as many entries as the step counter says, and the
\* series only grows by appending.
C5_SeriesLengthEqualsSteps ==
    /\ [](pc # "init" => \A n \in DOMAIN model_vars : Len(model_vars[n]) = num_steps)
    /\ [][pc # "init" =>
            \A n \in DOMAIN model_vars : IsPrefix(model_vars[n], model_vars'[n])]_vars

\* C6: the k-th entry of the column of agent a and issue i is the opinion a
\* held on i when the (k-1)-th schedule.step() had completed (the first entry
\* is the initial opinion); while the scheduler activates agents the record of
\* the step is already there; and a transition that appends to the series
\* changes no opinion and no edge.
C6_CollectedBeforeActivation ==
    /\ [](pc # "init" =>
            \A k \in DOMAIN ModelReporters :
               LET a == ModelReporters[k].agent
                   i == ModelReporters[k].issue
                   col == model_vars[ReporterName(a, i)]
               IN /\ Len(col) <= Len(history)
                  /\ \A j \in 1 .. Len(col) : col[j] = history[j][a][i]
                  /\ pc = "sched" => Len(col) = sched_steps + 1)
    /\ [][(pc # "init" /\ model_vars' # model_vars) =>
             (opinions' = opinions /\ G' = G)]_vars

\* C6 witness: a second record has been collected, after a step that moved
\* an opinion
C6_Witness ==
    /\ pc = "sched"
    /\ Len(model_vars[ReporterName(0, 0)]) = 2
    /\ history[2] # history[1]

\* C7: every opinion of every agent lies in [0, 1]
C7_OpinionsBounded ==
    pc # "init" =>
        \A a \in Agents(num_agents) : \A i \in Issues(num_issues) :
            0 <= opinions[a][i] /\ opinions[a][i] <= Scale

\* C7 witness: an agent has been persuaded, on an issue where it and its
\* neighbour held opinions above one half
C7_Witness ==
    /\ pc = "sched"
    /\ \E a \in Agents(num_agents) : \E i \in Issues(num_issues) :
          opinions[a][i] # Settled[a][i] /\ 2 * opinions[a][i] > Scale

\* every node of 0..N-1 is joined to every other by a path of edges of g: the
\* least set of nodes that holds 0 and, with a node, its neighbours, is all
RECURSIVE Component(_, _, _)
Component(g, seen, rounds) ==
    IF rounds = 0 THEN seen
    ELSE Component(g, seen \cup {b \in UNION g : \E a \in seen : {a, b} \in g}, rounds - 1)

\* C8: once the constructor has returned the graph is connected, and no step
\* changes its edges
C8_ConnectedAndFixed ==
    /\ [](pc # "init" =>
            Component(G, {0}, num_agents) = Agents(num_agents))
    /\ [][pc # "init" => G' = G]_vars

\* C8 witness: an engine on a graph that is not complete has run a step
C8_Witness ==
    /\ pc = "idle"
    /\ sched_steps >= 1
    /\ G # CompleteGraph(num_agents)

\* C9: when run(), called on an engine as constructed, returns, the step
\* counter is max_steps, every column holds max_steps entries and every agent
\* has been activated max_steps times
C9_RunMakesMaxSteps ==
    (pc = "idle" /\ call = "run" /\ run_left = 0 /\ run_fresh) =>
        /\ num_steps = max_steps
        /\ sched_steps = max_steps
        /\ \A n \in DOMAIN model_vars : Len(model_vars[n]) = max_steps
        /\ \A a \in Agents(num_agents) : activations[a] = max_steps

\* C9 witness: run() is about to return on an engine it found as constructed
C9_Witness ==
    pc = "idle" /\ call = "run" /\ run_left = 0 /\ run_fresh /\ num_steps >= 1

\* C10 (as claimed): once a record has been appended, the series has a column
\* MeanOpinionVar with one value for every record
C10_DispersionCollected ==
    (pc # "init" /\ Len(model_vars[ReporterName(0, 0)]) >= 1) =>
        /\ "MeanOpinionVar" \in DOMAIN model_vars
        /\ Len(model_vars["MeanOpinionVar"]) = Len(model_vars[ReporterName(0, 0)])

\* the names of the readings of the first min(4, N) agents on the first
\* min(3, I) issues
ReadingsWithin(N, I) ==
    {ReporterName(a, i) : a \in 0 .. (Min(ReportedAgents, N) - 1),
                          i \in 0 .. (Min(ReportedIssues, I) - 1)}

\* C11 (as claimed): with N >= 2 and I >= 2 the readings collected are exactly
\* agent{a}_iss{i} for a < min(4, N) and i < min(3, I), each column holds the
\* opinions of its agent on its issue, and no step() ends in an error.
C11_ReadingsWithinPopulation ==
    (pc # "init" /\ num_agents >= 2 /\ num_issues >= 2) =>
        /\ pc # "raised"
        /\ num_steps >= 1 =>
              {n \in DOMAIN model_vars : model_vars[n] # <<>>} =
                  ReadingsWithin(num_agents, num_issues)
        /\ \A a \in Agents(num_agents) : \A i \in Issues(num_issues) :
              ReporterName(a, i) \in DOMAIN model_vars =>
                 \A j \in 1 .. Len(model_vars[ReporterName(a, i)]) :
                    model_vars[ReporterName(a, i)][j] = history[j][a][i]


\* no two agents hold the same opinion on any issue
PairwiseDistinct(ops) ==
    \A a \in DOMAIN ops : \A b \in DOMAIN ops :
        a # b => \A i \in DOMAIN ops[a] : ops[a][i] # ops[b][i]

\* C12: in an engine built with Cthresh = 0 whose initial opinions are
\* pairwise distinct across agents on every issue, every agent's opinion
\* vector is its initial one whatever steps have run, and every column of the
\* series is constant.
C12_ZeroThresholdFreezes ==
    (pc # "init" /\ Cthresh = 0 /\ PairwiseDistinct(history[1])) =>
        /\ opinions = history[1]
        /\ \A n \in DOMAIN model_vars : \A j \in 1 .. Len(model_vars[n]) :
              model_vars[n][j] = model_vars[n][1]

\* C12 witness: such an engine, of four agents or more, has completed two
\* scheduler steps and recorded both
C12_Witness ==
    /\ pc = "idle"
    /\ Cthresh = 0
    /\ PairwiseDistinct(history[1])
    /\ num_agents >= ReportedAgents
    /\ sched_steps >= 2
    /\ Len(model_vars[ReporterName(0, 0)]) >= 2


\* C13: a step() call made while running is false changes nothing: not the
\* step counter, the series, the opinions, the running flag, nor does it
\* activate an agent or raise; and once the engine is built nothing sets
\* running again, so every later call finds it false as well.
C13_StoppedStepIsNoOp ==
    /\ [][(StepCall /\ ~running) =>
            /\ num_steps' = num_steps
            /\ model_vars' = model_vars
            /\ opinions' = opinions
            /\ running' = running
            /\ sched_steps' = sched_steps
            /\ activations' = activations
            /\ pc' = "idle"]_vars
    /\ [][(pc # "init" /\ ~running) => ~running']_vars

\* C13 witness: running was cleared from outside before the step ceiling, and
\* run() has since made an iteration
C13_Witness ==
    /\ pc = "idle"
    /\ call = "run"
    /\ ~running
    /\ num_steps < max_steps
    /\ run_left < max_steps


\* C14: whenever an agent with a neighbour is about to be activated, every
\* pair of issues it can draw has two distinct indices of 0..I-1; and in every
\* activation an opinion that changes, on issue j, was gated by the agent's
\* and a neighbour's opinions on another issue than j (and became the mean of
\* their opinions on j).
C14_DistinctIssuePair ==
    /\ [](pc = "sched" =>
            \A a \in pending : Adj(G, a) # {} =>
                \A pair \in IssuePairs(num_issues) :
                    /\ pair[1] \in Issues(num_issues)
                    /\ pair[2] \in Issues(num_issues)
                    /\ pair[1] # pair[2])
    /\ [][Activation =>
            \A a \in Agents(num_agents) : \A j \in Issues(num_issues) :
                opinions'[a][j] # opinions[a][j] =>
                    \E b \in Adj(G, a) : \E c \in Issues(num_issues) \ {j} :
                        /\ Abs(opinions[a][c] - opinions[b][c]) <= Cthresh
                        /\ 2 * opinions'[a][j] = opinions[a][j] + opinions[b][j]]_vars

\* C14 witness: an agent with a neighbour has been activated in the step in
\* progress and has changed an opinion; one agent is still to run
C14_Witness ==
    /\ pc = "sched"
    /\ Cardinality(pending) = 1
    /\ \E a \in Agents(num_agents) \ pending :
          Adj(G, a) # {} /\ \E j \in Issues(num_issues) : opinions[a][j] # Settled[a][j]


\* the agents with no neighbour in g
Isolated(g, N) == {a \in Agents(N) : Adj(g, a) = {}}

\* C15 (as claimed): in an engine that has an agent with no neighbour (the
\* single agent when N = 1), a step() call made while running reaches the
\* scheduler, the activation of that agent changes no opinion, and the
\* scheduler step that contains it completes and is counted.
C15_IsolatedActivationIsNoOp ==
    /\ [][(StepCall /\ running /\ Isolated(G, num_agents) # {}) => pc' = "sched"]_vars
    /\ [][(Activation /\ \E a \in Isolated(G, num_agents) :
                            activations'[a] # activations[a]) =>
            /\ opinions' = opinions
            /\ pending' = {} => (pc' = "idle" /\ sched_steps' = sched_steps + 1)]_vars


\* some graph nx.erdos_renyi_graph(N, ER_p) can return is connected
SomeDrawConnected ==
    \E g \in ErdosRenyiDraws(num_agents, p) :
        Component(g, {0}, num_agents) = Agents(num_agents)

C17_InPlaceSequential ==
    /\ [](pc = "sched" => \A y \in pending : opinions[y] = Settled[y])
    /\ [][Activation =>
            \E a \in pending :
                /\ activations'[a] = activations[a] + 1
                /\ \A x \in Agents(num_agents) \ {a} : opinions'[x] = opinions[x]
                /\ opinions'[a] # opinions[a] =>
                      \E b \in Adj(G, a) : \E j \in Issues(num_issues) :
                          /\ 2 * opinions'[a][j] = opinions[a][j] + opinions[b][j]
                          /\ \A i \in Issues(num_issues) \ {j} :
                                opinions'[a][i] = opinions[a][i]]_vars

\* C17 witness: the order matters.  Agent x has been activated in the step in
\* progress and has changed an opinion; its neighbour y is still to run, and
\* for some draw y ends with another opinion than it would have, had it run
\* before x and read the opinions x held when the step began.
C17_Witness ==
    /\ pc = "sched"
    /\ \E y \in pending : \E x \in Adj(G, y) \ pending :
          /\ opinions[x] # Settled[x]
          /\ \E pair \in IssuePairs(num_issues) :
                CitizenStep(opinions, y, x, pair[1], pair[2], Cthresh)[y] #
                    CitizenStep(Settled, y, x, pair[1], pair[2], Cthresh)[y]


\* the greatest and the least opinion the agents hold on issue i
MaxOn(ops, i) == CHOOSE v \in {ops[a][i] : a \in DOMAIN ops} :
                    \A a \in DOMAIN ops : ops[a][i] <= v
MinOn(ops, i) == CHOOSE v \in {ops[a][i] : a \in DOMAIN ops} :
                    \A a \in DOMAIN ops : v <= ops[a][i]

\* v is no greater than the greatest, and no less than the least, opinion
\* held on issue i in ops
WithinSpread(v, ops, i) ==
    /\ \E b \in DOMAIN ops : v <= ops[b][i]
    /\ \E b \in DOMAIN ops : ops[b][i] <= v

\* C18: on every issue, no transition of a constructed engine raises the
\* greatest opinion or lowers the least one (every opinion after it lies
\* between the least and the greatest opinion before it), so every opinion
\* on the issue stays between the least and the greatest initial opinion.
C18_SpreadNeverWidens ==
    /\ [][(pc # "init" /\ opinions' # opinions) =>
            \A a \in Agents(num_agents) : \A i \in Issues(num_issues) :
                WithinSpread(opinions'[a][i], opinions, i)]_vars
    /\ [](pc # "init" =>
            \A a \in Agents(num_agents) : \A i \in Issues(num_issues) :
                WithinSpread(opinions[a][i], history[1], i))

\* C18 witness: a step has completed after which the opinions on some issue
\* are closer together than they were at construction
C18_Witness ==
    /\ pc = "idle"
    /\ sched_steps >= 1
    /\ \E i \in Issues(num_issues) :
          MaxOn(opinions, i) - MinOn(opinions, i) <
              MaxOn(history[1], i) - MinOn(history[1], i)


\* C19: when run(), entered on an engine as constructed, returns, running is
\* still true; running goes from true to false only by an external clear or
\* in the step() call that finds the counter at max_steps and takes it to
\* max_steps + 1; and the counter never exceeds max_steps + 1.
C19_RunLeavesRunningSet ==
    /\ []((pc = "idle" /\ call = "run" /\ run_left = 0 /\ run_fresh) => running)
    /\ [][(pc # "init" /\ running /\ ~running') =>
            \/ ClearRunning
            \/ (StepCall /\ num_steps = max_steps /\ num_steps' = max_steps + 1)]_vars
    /\ [](pc # "init" => num_steps <= max_steps + 1)

\* C19 witness: run() is about to return from an engine it found as
\* constructed, all its max_steps scheduler steps made and running still set
C19_Witness ==
    /\ pc = "idle"
    /\ call = "run"
    /\ run_left = 0
    /\ run_fresh
    /\ running
    /\ sched_steps = max_steps

====
